---- MODULE Spec2Model ----
(***************************************************************************)
(* The two development servers of go-drive-duplicates:                     *)
(*   dev-server.py             start_server(), check_backend_server()      *)
(*   start-frontend-config.py  main(), load_config(),                      *)
(*                             check_backend_connection()                  *)
(* and the request handler CustomHTTPRequestHandler both define.           *)
(* One run of one script is one behaviour; the file system, the backend,   *)
(* the operator's terminal and the kernel's answer to bind() are the       *)
(* environment and are chosen nondeterministically where the code reads    *)
(* them.                                                                   *)
(***************************************************************************)
EXTENDS Integers, Sequences, FiniteSets, TLC

VARIABLES
    script,          \* which script this run executes: "dev" or "cfg"
    pc,              \* position of the main thread
    fileState,       \* static/config/frontend.yaml: missing, malformed, unreadable, ok
    doc,             \* what yaml.safe_load yields for the file when it is ok
    staticExists,    \* os.path.exists("static")
    config,          \* <<>> until load_config returned, then <<its value>>
    port, host,      \* <<>> until resolved, then <<value>>
    backendRunning,  \* <<>> until the checker returned, then <<TRUE>> or <<FALSE>>
    probe,           \* <<>> until the backend was probed, then <<what the probe met>>
    stdin,           \* <<>> until input() ran, then <<what it met>>
    bindResult,      \* <<>> until TCPServer(...) ran, then <<what bind met>>
    out,             \* the diagnostics printed, in order
    exitCode,        \* <<>> while the process lives, then <<code>>
    unhandled,       \* <<>> or <<name of the exception that escaped>>
    phases,          \* the bootstrap states entered, in order
    served,          \* serve_forever() was entered
    browserPc,       \* the browser thread: unstarted, sleeping, opened
    threadsStarted,  \* Thread.start() calls
    browserOpens,    \* webbrowser.open() calls
    nreq,            \* requests handled
    request,         \* <<>> or <<the last request>>
    response         \* <<>> or <<the last response>>

vars == <<script, pc, fileState, doc, staticExists, config, port, host,
          backendRunning, probe, stdin, bindResult, out, exitCode, unhandled,
          phases, served, browserPc, threadsStarted, browserOpens, nreq,
          request, response>>

envVars == <<script, fileState, doc, staticExists>>
httpVars == <<nreq, request, response>>
browserVars == <<browserPc, threadsStarted, browserOpens>>

-----------------------------------------------------------------------------
(* Bounds *)

MaxRequests == 2

-----------------------------------------------------------------------------
(* Python values: None, a dict (a function on its keys), leaves as they are *)

PyNone == [py |-> "None"]
PyDict(items) == [py |-> "dict", items |-> items]
NoItems == [k \in {} |-> 0]

Return(v) == [ok |-> TRUE, val |-> v]
Raise(e) == [ok |-> FALSE, exc |-> e]

\* v[k]: None is not subscriptable, a dict without the key raises KeyError
Subscript(v, k) ==
    IF v.py = "None" THEN Raise("TypeError")
    ELSE IF k \in DOMAIN v.items THEN Return(v.items[k])
    ELSE Raise("KeyError")

\* v[k1][k2]
Subscript2(v, k1, k2) ==
    LET a == Subscript(v, k1)
    IN IF a.ok THEN Subscript(a.val, k2) ELSE a

\* d.get(k, default) on a value: None has no attribute get
DictGet(v, k, default) ==
    IF v.py = "None" THEN Raise("AttributeError")
    ELSE IF k \in DOMAIN v.items THEN Return(v.items[k])
    ELSE Return(default)

-----------------------------------------------------------------------------
(* The configuration documents of the model *)

FrontendPorts == {3000, 5173}
FrontendHosts == {"localhost", "0.0.0.0"}
BackendPorts == {9090}
BackendHosts == {"127.0.0.1"}
Protocols == {"http", "https"}

Opt(S) == {NoItems} \cup S

FrontendSections ==
    {PyNone} \cup
    {PyDict(p @@ h) :
        p \in Opt({[port |-> x] : x \in FrontendPorts}),
        h \in Opt({[host |-> x] : x \in FrontendHosts})}

BackendSections ==
    {PyNone} \cup
    {PyDict(p @@ h @@ r) :
        p \in Opt({[port |-> x] : x \in BackendPorts}),
        h \in Opt({[host |-> x] : x \in BackendHosts}),
        r \in Opt({[protocol |-> x] : x \in Protocols})}

\* an empty file loads as None; otherwise a mapping with any of the sections
Documents ==
    {PyNone} \cup
    {PyDict(f @@ b) :
        f \in Opt({[frontend |-> s] : s \in FrontendSections}),
        b \in Opt({[backend |-> s] : s \in BackendSections})}

FileStates == {"missing", "malformed", "unreadable", "ok"}

-----------------------------------------------------------------------------
(* start-frontend-config.py: load_config *)

DefaultConfig ==
    PyDict([frontend |-> PyDict([port |-> 3000, host |-> "localhost"]),
            backend  |-> PyDict([port |-> 8080, host |-> "localhost"])])

\* load_config falling back to the defaults for a malformed file as well
load_config_fallback(fs, d) ==
    CASE fs = "ok"         -> [exit |-> <<>>,  val |-> <<d>>,
                               msg |-> <<"config_loaded">>]
      [] fs = "missing"    -> [exit |-> <<>>,  val |-> <<DefaultConfig>>,
                               msg |-> <<"config_default">>]
      [] fs = "malformed"  -> [exit |-> <<>>,  val |-> <<DefaultConfig>>,
                               msg |-> <<"yaml_error">>]
      [] fs = "unreadable" -> [exit |-> <<1>>, val |-> <<>>,
                               msg |-> <<"config_load_error">>]

\* the result of load_config: a value returned, or sys.exit(code)
load_config(fs, d) ==
    CASE fs = "ok"         -> [exit |-> <<>>,  val |-> <<d>>,
                               msg |-> <<"config_loaded">>]
      [] fs = "missing"    -> [exit |-> <<>>,  val |-> <<DefaultConfig>>,
                               msg |-> <<"config_default">>]
      [] fs = "malformed"  -> [exit |-> <<1>>, val |-> <<>>,
                               msg |-> <<"yaml_error">>]
      [] fs = "unreadable" -> [exit |-> <<1>>, val |-> <<>>,
                               msg |-> <<"config_load_error">>]

-----------------------------------------------------------------------------
(* Python's exception classes, as far as the except clauses tell them apart *)

Bases(e) ==
    CASE e = "KeyError"           -> {"KeyError", "LookupError", "Exception"}
      [] e = "TypeError"          -> {"TypeError", "Exception"}
      [] e = "AttributeError"     -> {"AttributeError", "Exception"}
      [] e = "EOFError"           -> {"EOFError", "Exception"}
      [] e = "OSError"            -> {"OSError", "Exception"}
      [] e = "PermissionError"    -> {"PermissionError", "OSError", "Exception"}
      [] e = "gaierror"           -> {"gaierror", "OSError", "Exception"}
      [] e = "timeout"            -> {"timeout", "OSError", "Exception"}
      [] e = "URLError"           -> {"URLError", "OSError", "Exception"}
      [] e = "HTTPError"          -> {"HTTPError", "URLError", "OSError", "Exception"}
      [] e = "RemoteDisconnected" -> {"RemoteDisconnected", "ConnectionResetError",
                                      "ConnectionError", "BadStatusLine",
                                      "HTTPException", "OSError", "Exception"}
      [] e = "KeyboardInterrupt"  -> {"KeyboardInterrupt"}

\* an except clause naming the classes cs catches e
Catches(cs, e) == cs \cap Bases(e) # {}

-----------------------------------------------------------------------------
(* dev-server.py: check_backend_server *)

HttpResponse(status) == [raised |-> FALSE, status |-> status]
Raised(e) == [raised |-> TRUE, exc |-> e]

\* what urlopen('http://localhost:8080/health', timeout=5) can meet: a 2xx answer
\* is returned, a 4xx/5xx answer is HTTPError, a refused or timed-out connect is
\* URLError; a timeout or a closed connection while the answer is read is raised
\* as it is
UrlopenOutcomes ==
    {HttpResponse(200), HttpResponse(204),
     Raised("HTTPError"), Raised("URLError"),
     Raised("timeout"), Raised("RemoteDisconnected")}

check_backend_server(o) ==
    IF ~o.raised
    THEN Return(o.status = 200)
    ELSE IF Catches({"URLError", "HTTPError", "ConnectionRefusedError"}, o.exc)
         THEN Return(FALSE)
         ELSE Raise(o.exc)

-----------------------------------------------------------------------------
(* start-frontend-config.py: check_backend_connection *)

ConnectResult(r) == [raised |-> FALSE, result |-> r]

\* connect_ex returns 0, or an errno (111 refused, 11 timed out); it raises
\* gaierror for a host that does not resolve
ConnectOutcomes ==
    {ConnectResult(0), ConnectResult(111), ConnectResult(11), Raised("gaierror")}

check_backend_connection(cfg, o) ==
    LET h == Subscript2(cfg, "backend", "host")
        p == Subscript2(cfg, "backend", "port")
    IN IF ~h.ok THEN h
       ELSE IF ~p.ok THEN p
       ELSE IF o.raised
            THEN IF Catches({"Exception"}, o.exc) THEN Return(FALSE) ELSE Raise(o.exc)
            ELSE Return(o.result = 0)

-----------------------------------------------------------------------------
(* input().lower().strip() *)

Whitespace == {" ", "\t"}

lower(line) ==
    [i \in DOMAIN line |->
        CASE line[i] = "Y" -> "y"
          [] line[i] = "E" -> "e"
          [] line[i] = "S" -> "s"
          [] line[i] = "N" -> "n"
          [] OTHER -> line[i]]

RECURSIVE lstrip(_)
lstrip(line) ==
    IF line # <<>> /\ Head(line) \in Whitespace THEN lstrip(Tail(line)) ELSE line

RECURSIVE rstrip(_)
rstrip(line) ==
    IF line # <<>> /\ line[Len(line)] \in Whitespace
    THEN rstrip(SubSeq(line, 1, Len(line) - 1))
    ELSE line

strip(line) == rstrip(lstrip(line))

Eof == [eof |-> TRUE, line |-> <<>>]
Line(l) == [eof |-> FALSE, line |-> l]

StdinInputs ==
    {Eof} \cup
    {Line(l) : l \in {<<"y">>, <<"Y">>, <<"y", "e", "s">>,
                      <<" ", "Y", "e", "S", " ">>, <<"n">>, <<>>,
                      <<"y", "e", "s", "!">>}}

\* line 120: the answer lets startup continue
Accepts(line) ==
    LET r == strip(lower(line))
    IN ~(r # <<"y">> /\ r # <<"y", "e", "s">>)

-----------------------------------------------------------------------------
(* bind: what TCPServer((host, port), Handler) can meet *)

BindOk == [ok |-> TRUE, exc |-> "", errno |-> 0, strerror |-> ""]
BindError(e, n, text) == [ok |-> FALSE, exc |-> e, errno |-> n, strerror |-> text]

AddressInUseText == "Address already in use"

\* EADDRINUSE is errno 48 on macOS and the BSDs and errno 98 on Linux
AddressInUse == {BindError("OSError", 48, AddressInUseText),
                 BindError("OSError", 98, AddressInUseText)}

BindOutcomes ==
    {BindOk} \cup AddressInUse \cup
    {BindError("PermissionError", 13, "Permission denied"),
     BindError("OSError", 99, "Cannot assign requested address")}

-----------------------------------------------------------------------------
(* CustomHTTPRequestHandler *)

Methods == {"GET", "HEAD", "OPTIONS", "POST"}

\* the paths requested, and what each is under the static root
Paths == {"/index_port3000.html", "/missing.js", "/js", "/../dev-server.py"}

PathKind(path) ==
    CASE path = "/index_port3000.html" -> "file"
      [] path = "/js"                  -> "dir"
      [] OTHER                         -> "none"

CorsHeaders ==
    {<<"Access-Control-Allow-Origin", "*">>,
     <<"Access-Control-Allow-Methods", "GET, POST, PUT, DELETE, OPTIONS">>,
     <<"Access-Control-Allow-Headers", "Content-Type, Authorization">>}

\* end_headers: the headers the script adds to those sent so far
end_headers(s, sent) ==
    IF s = "dev"
    THEN sent \cup CorsHeaders
              \cup {<<"Cache-Control", "no-cache, no-store, must-revalidate">>,
                    <<"Pragma", "no-cache">>,
                    <<"Expires", "0">>}
    ELSE sent \cup CorsHeaders
              \cup {<<"Cache-Control", "no-cache, no-store, must-revalidate">>}

\* send_response of the base class: the status line, Server and Date
send_response == {<<"Server", "SimpleHTTP">>, <<"Date", "now">>}

Answer(status, headers, body, resolved) ==
    [status |-> status, headers |-> headers, body |-> body, resolved |-> resolved]

\* send_error of the base class: an HTML page, none for HEAD
send_error(s, method, status, resolved) ==
    Answer(status,
           end_headers(s, send_response \cup {<<"Connection", "close">>,
                                              <<"Content-Type", "text/html">>,
                                              <<"Content-Length", "len(page)">>}),
           IF method = "HEAD" THEN "" ELSE "error page",
           resolved)

\* do_GET and do_HEAD of SimpleHTTPRequestHandler: the path is resolved under the
\* root; a directory named without its slash is redirected, a file is sent,
\* anything else is 404
send_head(s, method, path) ==
    CASE PathKind(path) = "file" ->
            Answer(200,
                   end_headers(s, send_response \cup
                                  {<<"Content-type", "text/html">>,
                                   <<"Content-Length", "len(file)">>,
                                   <<"Last-Modified", "mtime">>}),
                   IF method = "HEAD" THEN "" ELSE "file bytes",
                   TRUE)
      [] PathKind(path) = "dir" ->
            Answer(301,
                   end_headers(s, send_response \cup
                                  {<<"Location", "path/">>,
                                   <<"Content-Length", "0">>}),
                   "",
                   TRUE)
      [] OTHER -> send_error(s, method, 404, TRUE)

\* do_OPTIONS answering like HEAD: the path is resolved first
do_OPTIONS_resolving(s, path) == send_head(s, "HEAD", path)

do_OPTIONS(s, path) ==
    Answer(200, end_headers(s, send_response), "", FALSE)

\* the dispatch of BaseHTTPRequestHandler: do_<METHOD>, or 501 without one
handle(s, method, path) ==
    CASE method = "OPTIONS"         -> do_OPTIONS(s, path)
      [] method \in {"GET", "HEAD"} -> send_head(s, method, path)
      [] OTHER                      -> send_error(s, method, 501, FALSE)

-----------------------------------------------------------------------------
(* Initial states *)

\* dev-server.py: PORT, the errno it takes for "address in use"
PORT == 3000
AddrInUseErrno == 48

Scripts == {"dev", "cfg"}

Init ==
    /\ script \in Scripts
    /\ pc = "start"
    /\ staticExists \in BOOLEAN
    /\ IF script = "cfg"
       THEN /\ fileState \in FileStates
            /\ IF fileState = "ok" THEN doc \in Documents ELSE doc = PyNone
       ELSE /\ fileState = "missing"
            /\ doc = PyNone
    /\ config = <<>>
    /\ port = <<>>
    /\ host = <<>>
    /\ backendRunning = <<>>
    /\ probe = <<>>
    /\ stdin = <<>>
    /\ bindResult = <<>>
    /\ out = <<>>
    /\ exitCode = <<>>
    /\ unhandled = <<>>
    /\ phases = <<"INIT">>
    /\ served = FALSE
    /\ browserPc = "unstarted"
    /\ threadsStarted = 0
    /\ browserOpens = 0
    /\ nreq = 0
    /\ request = <<>>
    /\ response = <<>>

-----------------------------------------------------------------------------
(* How a run ends *)

\* sys.exit(code), or the end of the script (code 0)
Exit(code) ==
    /\ pc' = "exited"
    /\ exitCode' = <<code>>
    /\ unhandled' = <<>>

\* an exception no except clause caught: a traceback and exit code 1
Crash(e) ==
    /\ pc' = "exited"
    /\ exitCode' = <<1>>
    /\ unhandled' = <<e>>

Continue(next) ==
    /\ pc' = next
    /\ UNCHANGED <<exitCode, unhandled>>

Say(m) == out' = Append(out, m)
Enter(phase) == phases' = Append(phases, phase)

Exception(e) == [exc |-> e, errno |-> 0, strerror |-> ""]

-----------------------------------------------------------------------------
(* dev-server.py: start_server *)

\* lines 108-116: the except clauses around the server; exit <<>> is the
\* exception leaving start_server
dev_except(e) ==
    IF Catches({"KeyboardInterrupt"}, e.exc)
    THEN [caught |-> TRUE, msg |-> <<"shutdown">>, exit |-> 0]
    ELSE IF Catches({"OSError"}, e.exc)
    THEN [caught |-> TRUE,
          msg |-> IF e.errno = AddrInUseErrno
                  THEN <<"port_in_use", PORT>>
                  ELSE <<"start_failed">>,
          exit |-> 1]
    ELSE [caught |-> FALSE, msg |-> <<>>, exit |-> 1]

\* lines 57-68
DevCheckStatic ==
    /\ script = "dev"
    /\ pc = "start"
    /\ port' = <<PORT>>
    /\ host' = <<"">>
    /\ Enter("CONFIG_LOADED")
    /\ IF staticExists
       THEN /\ Say(<<"starting">>)
            /\ Continue("check_backend")
       ELSE /\ Say(<<"static_missing">>)
            /\ Exit(1)
    /\ UNCHANGED <<envVars, config, backendRunning, probe, stdin, bindResult,
                   served, browserVars, httpVars>>

\* lines 70-77
DevCheckBackend ==
    /\ script = "dev"
    /\ pc = "check_backend"
    /\ \E o \in UrlopenOutcomes :
          LET r == check_backend_server(o)
          IN /\ probe' = <<o>>
             /\ IF r.ok
                THEN /\ backendRunning' = <<r.val>>
                     /\ Say(IF r.val THEN <<"backend_ok">> ELSE <<"backend_warn">>)
                     /\ Enter("BACKEND_CHECKED")
                     /\ Continue("bind")
                ELSE /\ Crash(r.exc)
                     /\ UNCHANGED <<backendRunning, out, phases>>
    /\ UNCHANGED <<envVars, config, port, host, stdin, bindResult, served,
                   browserVars, httpVars>>

\* open_browser trying a second time
open_browser_retry(opens) == opens + 2

\* the thread's target, lines 99-101: sleep, then open the browser
open_browser(opens) == opens + 1

\* lines 103-106: how many threads start once the banner is printed
start_thread(started) == started + 1

\* lines 80-106 and, when the bind fails, 110-116
DevBind ==
    /\ script = "dev"
    /\ pc = "bind"
    /\ \E b \in BindOutcomes :
          /\ bindResult' = <<b>>
          /\ IF b.ok
             THEN /\ Say(<<"banner", PORT>>)
                  /\ Enter("LISTENING")
                  /\ threadsStarted' = start_thread(threadsStarted)
                  /\ browserPc' = "sleeping"
                  /\ served' = TRUE
                  /\ Continue("serving")
                  /\ UNCHANGED browserOpens
             ELSE LET h == dev_except(b)
                  IN /\ Enter("BIND_FAILED")
                     /\ IF h.caught
                        THEN Say(h.msg) /\ Exit(h.exit)
                        ELSE UNCHANGED out /\ Crash(b.exc)
                     /\ UNCHANGED <<served, browserVars>>
    /\ UNCHANGED <<envVars, config, port, host, backendRunning, probe, stdin,
                   httpVars>>

\* the daemon thread, while the process lives
BrowserOpen ==
    /\ script = "dev"
    /\ browserPc = "sleeping"
    /\ pc # "exited"
    /\ browserOpens' = open_browser(browserOpens)
    /\ browserPc' = "opened"
    /\ UNCHANGED <<envVars, pc, config, port, host, backendRunning, probe, stdin,
                   bindResult, out, exitCode, unhandled, phases, served,
                   threadsStarted, httpVars>>

-----------------------------------------------------------------------------
(* start-frontend-config.py: main *)

\* lines 98-108: the fields main reads before the backend check, in order;
\* exc is the exception the first failing read raises
main_fields(cfg) ==
    LET p  == Subscript2(cfg, "frontend", "port")
        f  == Subscript(cfg, "frontend")
        h  == DictGet(f.val, "host", "localhost")
        bh == Subscript2(cfg, "backend", "host")
        bp == Subscript2(cfg, "backend", "port")
    IN IF ~p.ok THEN [exc |-> <<p.exc>>, port |-> <<>>, host |-> <<>>]
       ELSE IF ~bh.ok THEN [exc |-> <<bh.exc>>, port |-> <<p.val>>, host |-> <<h.val>>]
       ELSE IF ~bp.ok THEN [exc |-> <<bp.exc>>, port |-> <<p.val>>, host |-> <<h.val>>]
       ELSE [exc |-> <<>>, port |-> <<p.val>>, host |-> <<h.val>>]

\* "Address already in use" in str(e): str(e) is "[Errno n] " and e's strerror
InStr(text, e) == e.strerror = text

\* lines 140-152: the except clauses around the server; main returns after each
main_except(e, p) ==
    IF Catches({"KeyboardInterrupt"}, e.exc) THEN <<"shutdown">>
    ELSE IF Catches({"PermissionError"}, e.exc) THEN <<"permission", p>>
    ELSE IF Catches({"OSError"}, e.exc)
    THEN IF InStr(AddressInUseText, e) THEN <<"port_in_use", p>> ELSE <<"start_error">>
    ELSE <<"unexpected">>

\* line 95
CfgLoadConfig ==
    /\ script = "cfg"
    /\ pc = "start"
    /\ LET r == load_config(fileState, doc)
       IN /\ Say(r.msg)
          /\ config' = r.val
          /\ IF r.exit = <<>>
             THEN Enter("CONFIG_LOADED") /\ Continue("fields")
             ELSE UNCHANGED phases /\ Exit(r.exit[1])
    /\ UNCHANGED <<envVars, port, host, backendRunning, probe, stdin, bindResult,
                   served, browserVars, httpVars>>

\* lines 97-108
CfgReadFields ==
    /\ script = "cfg"
    /\ pc = "fields"
    /\ LET r == main_fields(config[1])
       IN /\ port' = r.port
          /\ host' = r.host
          /\ IF r.exc = <<>> THEN Continue("check_backend") ELSE Crash(r.exc[1])
    /\ UNCHANGED <<envVars, config, backendRunning, probe, stdin, bindResult, out,
                   phases, served, browserVars, httpVars>>

\* lines 110-117: the check and, when it is false, the prompt printed
CfgCheckBackend ==
    /\ script = "cfg"
    /\ pc = "check_backend"
    /\ \E o \in ConnectOutcomes :
          LET r == check_backend_connection(config[1], o)
          IN /\ probe' = <<o>>
             /\ IF r.ok
                THEN /\ backendRunning' = <<r.val>>
                     /\ Enter("BACKEND_CHECKED")
                     /\ IF r.val
                        THEN Say(<<"backend_ok">>) /\ Continue("check_static")
                        ELSE /\ out' = out \o << <<"backend_warn">>, <<"prompt">> >>
                             /\ Continue("prompt")
                ELSE /\ Crash(r.exc)
                     /\ UNCHANGED <<backendRunning, out, phases>>
    /\ UNCHANGED <<envVars, config, port, host, stdin, bindResult, served,
                   browserVars, httpVars>>

\* lines 119-122: input() raises EOFError when standard input is at its end
CfgPrompt ==
    /\ script = "cfg"
    /\ pc = "prompt"
    /\ \E i \in StdinInputs :
          /\ stdin' = <<i>>
          /\ IF i.eof
             THEN Crash("EOFError") /\ UNCHANGED out
             ELSE IF Accepts(i.line)
                  THEN Continue("check_static") /\ UNCHANGED out
                  ELSE Say(<<"cancelled">>) /\ Exit(1)
    /\ UNCHANGED <<envVars, config, port, host, backendRunning, probe, bindResult,
                   phases, served, browserVars, httpVars>>

\* lines 124-128
CfgCheckStatic ==
    /\ script = "cfg"
    /\ pc = "check_static"
    /\ IF staticExists
       THEN Continue("bind") /\ UNCHANGED out
       ELSE Say(<<"static_missing">>) /\ Exit(1)
    /\ UNCHANGED <<envVars, config, port, host, backendRunning, probe, stdin,
                   bindResult, phases, served, browserVars, httpVars>>

\* lines 130-138 and, when the body of the with raises, 142-152
CfgBind ==
    /\ script = "cfg"
    /\ pc = "bind"
    /\ \E b \in BindOutcomes :
          /\ bindResult' = <<b>>
          /\ IF b.ok
             THEN LET proto == Subscript2(config[1], "backend", "protocol")
                  IN /\ Enter("LISTENING")
                     /\ IF proto.ok
                        THEN /\ Say(<<"banner", port[1]>>)
                             /\ served' = TRUE
                             /\ Continue("serving")
                        ELSE /\ out' = out \o << <<"started">>,
                                                 main_except(Exception(proto.exc), port[1]) >>
                             /\ served' = FALSE
                             /\ Exit(0)
             ELSE /\ Enter("BIND_FAILED")
                  /\ Say(main_except(b, port[1]))
                  /\ Exit(0)
                  /\ UNCHANGED served
    /\ UNCHANGED <<envVars, config, port, host, backendRunning, probe, stdin,
                   browserVars, httpVars>>

-----------------------------------------------------------------------------
(* Both scripts: the accept loop *)

\* a request arrives while serve_forever runs
HandleRequest ==
    /\ pc = "serving"
    /\ nreq < MaxRequests
    /\ \E m \in Methods, path \in Paths :
          /\ request' = <<[method |-> m, path |-> path]>>
          /\ response' = <<handle(script, m, path)>>
    /\ nreq' = nreq + 1
    /\ UNCHANGED <<envVars, pc, config, port, host, backendRunning, probe, stdin,
                   bindResult, out, exitCode, unhandled, phases, served,
                   browserVars>>

\* Ctrl+C while serve_forever runs: dev-server.py 108-109,
\* start-frontend-config.py 140-141; both scripts then run off their end
Interrupt ==
    /\ pc = "serving"
    /\ Say(IF script = "dev"
           THEN dev_except(Exception("KeyboardInterrupt")).msg
           ELSE main_except(Exception("KeyboardInterrupt"), port[1]))
    /\ Enter("SHUTTING_DOWN")
    /\ Exit(IF script = "dev"
            THEN dev_except(Exception("KeyboardInterrupt")).exit
            ELSE 0)
    /\ UNCHANGED <<envVars, config, port, host, backendRunning, probe, stdin,
                   bindResult, served, browserVars, httpVars>>

Next ==
    \/ DevCheckStatic
    \/ DevCheckBackend
    \/ DevBind
    \/ BrowserOpen
    \/ CfgLoadConfig
    \/ CfgReadFields
    \/ CfgCheckBackend
    \/ CfgPrompt
    \/ CfgCheckStatic
    \/ CfgBind
    \/ HandleRequest
    \/ Interrupt

Spec == Init /\ [][Next]_vars

-----------------------------------------------------------------------------
(* Properties *)

Printed(m) == \E i \in DOMAIN out : out[i] = m

Exited == pc = "exited"

NoRepeat(seq) == \A i, j \in DOMAIN seq : seq[i] = seq[j] => i = j

\* the value a field has by the documentation: the document's, else the default
Documented(d, section, key, default) ==
    LET v == Subscript2(d, section, key)
    IN IF v.ok THEN v.val ELSE default

\* the backend answered the probe as a reachable backend does
Reachable(o) ==
    /\ ~o.raised
    /\ IF "status" \in DOMAIN o THEN o.status = 200 ELSE o.result = 0

HasHeader(r, name) == \E h \in r.headers : h[1] = name

\* C1: when the bind fails because the port is in use, either script prints a
\* diagnostic naming the port and ends with a non-zero exit code, and no
\* exception escapes
C1_PortConflictExitsNonZero ==
    (bindResult # <<>> /\ bindResult[1] \in AddressInUse) =>
        /\ Exited
        /\ Printed(<<"port_in_use", port[1]>>)
        /\ exitCode # <<0>>
        /\ unhandled = <<>>

\* the ServerConfig of the documentation's defaults
FullDefaultConfig ==
    PyDict([frontend |-> PyDict([port |-> 3000, host |-> "localhost"]),
            backend  |-> PyDict([port |-> 8080, host |-> "localhost",
                                 protocol |-> "http"])])

\* C2: with the configuration file missing, load_config returns the full default
\* configuration, protocol included, the process goes on, and every later read
\* of a field succeeds
C2_MissingFileFullDefaults ==
    (script = "cfg" /\ fileState = "missing" /\ pc # "start") =>
        /\ config = <<FullDefaultConfig>>
        /\ unhandled \in {<<>>, <<"EOFError">>}
        /\ ~Printed(<<"unexpected">>)

\* C3: for a document that parsed, the fields startup uses are the document's
\* where it has them and the defaults where it lacks them, and no missing field
\* makes startup fail
C3_FieldsDocumentOrDefault ==
    (script = "cfg" /\ fileState = "ok" /\ pc \notin {"start", "fields"}) =>
        /\ unhandled \in {<<>>, <<"EOFError">>}
        /\ ~Printed(<<"unexpected">>)
        /\ port = <<Documented(doc, "frontend", "port", 3000)>>
        /\ host = <<Documented(doc, "frontend", "host", "localhost")>>

\* C4: a configuration file with invalid syntax ends the run with a non-zero
\* exit code before the backend is probed, the operator is asked or a listener
\* is bound
C4_MalformedAbortsBeforeStartup ==
    (script = "cfg" /\ fileState = "malformed" /\ pc # "start") =>
        /\ Exited
        /\ exitCode # <<>>
        /\ exitCode # <<0>>
        /\ probe = <<>>
        /\ backendRunning = <<>>
        /\ ~Printed(<<"prompt">>)
        /\ stdin = <<>>
        /\ bindResult = <<>>
        /\ ~served

C4_Witness ==
    /\ script = "cfg"
    /\ fileState = "malformed"
    /\ Exited
    /\ exitCode = <<1>>
    /\ Printed(<<"yaml_error">>)

\* C5: a false backend check never ends the run by itself: a run that ended
\* before the bind step after a false check ended because the operator
\* declined (or the static directory is missing); without operator input the
\* run goes on
C5_UnreachableBackendNeverAborts ==
    (backendRunning = <<FALSE>> /\ Exited /\ bindResult = <<>>) =>
        \/ Printed(<<"static_missing">>)
        \/ stdin # <<>> /\ ~stdin[1].eof /\ Printed(<<"cancelled">>)

\* C6: the checkers return true exactly when the backend is reachable and false
\* for every other outcome of the probe; no exception leaves them
C6_CheckersNeverRaise ==
    probe # <<>> => backendRunning = <<Reachable(probe[1])>>

\* C7: every response of either handler carries the three CORS headers and
\* Cache-Control, Pragma and Expires
C7_EveryResponseCarriesHeaders ==
    response # <<>> =>
        /\ <<"Access-Control-Allow-Origin", "*">> \in response[1].headers
        /\ HasHeader(response[1], "Access-Control-Allow-Methods")
        /\ HasHeader(response[1], "Access-Control-Allow-Headers")
        /\ <<"Cache-Control", "no-cache, no-store, must-revalidate">>
               \in response[1].headers
        /\ <<"Pragma", "no-cache">> \in response[1].headers
        /\ <<"Expires", "0">> \in response[1].headers

\* C8: an OPTIONS request to any path, existing or not, is answered 200 with an
\* empty body and the CORS headers, and the path is not resolved
C8_OptionsAlways200 ==
    (request # <<>> /\ request[1].method = "OPTIONS") =>
        /\ response[1].status = 200
        /\ response[1].body = ""
        /\ CorsHeaders \subseteq response[1].headers
        /\ ~response[1].resolved

C8_Witness ==
    /\ request # <<>>
    /\ request[1].method = "OPTIONS"
    /\ PathKind(request[1].path) = "none"
    /\ response[1].status = 200

\* C9: a run whose bind succeeded reaches serve_forever, leaves it only by an
\* interrupt, then prints the shutdown message and exits with code 0; no
\* bootstrap state is entered twice
C9_BoundRunServesUntilInterrupt ==
    /\ bindResult = <<BindOk>> => served
    /\ (served /\ Exited) => (Printed(<<"shutdown">>) /\ exitCode = <<0>>)
    /\ NoRepeat(phases)

\* C10: dev-server.py starts the browser thread at most once and only after a
\* successful bind; serve_forever is entered while the thread still sleeps; the
\* browser is opened at most once; the thread's step changes nothing but its
\* own position and count
C10_BrowserOpenOnce ==
    /\ [](/\ threadsStarted <= 1
          /\ browserOpens <= 1
          /\ threadsStarted > 0 => (script = "dev" /\ bindResult = <<BindOk>>)
          /\ browserPc # "unstarted" => (threadsStarted = 1 /\ served)
          /\ browserPc = "opened" <=> browserOpens > 0)
    /\ [][browserOpens' # browserOpens =>
            UNCHANGED <<envVars, pc, config, port, host, backendRunning, probe,
                        stdin, bindResult, out, exitCode, unhandled, phases,
                        served, threadsStarted, httpVars>>]_vars

C10_Witness ==
    /\ script = "dev"
    /\ pc = "serving"
    /\ nreq > 0
    /\ browserPc = "opened"
    /\ browserOpens = 1

====
